---- MODULE Spec2Model ----
(***************************************************************************)
(* Whale dashboard controller (src/index.js, class Whale).                 *)
(*                                                                         *)
(* One state machine: the fields of the Whale object, the visibility flags *)
(* of the three overlay boxes the object currently references, the         *)
(* one-shot 'enter' handlers registered on the screen, the two interval    *)
(* timers and the bag of API requests whose promise has not settled yet.   *)
(* Every handler runs to completion (single-threaded event loop), so every *)
(* action is one handler: a timer callback, a key handler, the table       *)
(* 'select' handler, the resize handler, or the then/catch continuation of *)
(* one request.                                                            *)
(***************************************************************************)
EXTENDS Integers, Sequences, FiniteSets, TLC

\* ------------------------------------------------------------------------
\* Construction parameters (the scenario of spec.md section 8)
\* ------------------------------------------------------------------------
Markets == <<"BTC", "ETH">>

Periods == <<"1h", "1d">>

Range(s) == {s[i] : i \in DOMAIN s}

\* exchange.defaultPeriod: absent, or one of the supported periods
NoDefault == "undefined"

DefaultPeriods == Range(Periods) \cup {NoDefault}

\* ------------------------------------------------------------------------
\* Bounds of the model
\* ------------------------------------------------------------------------
\* requests in flight at the same time
MaxInFlight == 2

\* one-shot 'enter' handlers registered and not yet fired
MaxAcks == 2

\* ------------------------------------------------------------------------
\* Requests and responses of the data source
\* ------------------------------------------------------------------------
ColdReq(m, p) == [kind |-> "cold", market |-> m, period |-> p]

PriceReq == [kind |-> "price", market |-> "all", period |-> "none"]

TrendReq(m, p) == [kind |-> "trend", market |-> m, period |-> p]

ColdRequests == {ColdReq(m, p) : m \in Range(Markets), p \in Range(Periods)}

TrendRequests == {TrendReq(m, p) : m \in Range(Markets), p \in Range(Periods)}

Requests == ColdRequests \cup {PriceReq} \cup TrendRequests

\* api.getCurrentPrice(exchange, markets): one entry per market, in the
\* order of the markets list
PriceResponse == [i \in DOMAIN Markets |-> [name |-> Markets[i]]]

\* api.getPriceTrend(exchange, market, null, period): the series of the
\* market and period the request was issued for
TrendResponse(r) == [currentMarket |-> r.market, period |-> r.period]

\* this.data = {} : neither snapshot present
NoPrice == << >>

NoTrend == [currentMarket |-> "undefined", period |-> "undefined"]

\* a rejected promise: err.response && err.response.request is truthy
\* ("http"), or it is not ("other": no response was received, or any other
\* rejection)
ErrKinds == {"http", "other"}

\* ------------------------------------------------------------------------
\* State
\* ------------------------------------------------------------------------
VARIABLES
  exitStatus,     \* "alive", or "exit0" / "exit1" after process.exit(n)
  running,        \* this.running
  currentMarket,  \* this.currentMarket
  currentPeriod,  \* this.currentPeriod
  data,           \* this.data: [currentPrice, priceTrend]
  lastUpdate,     \* this.lastUpdate: which fetch stamped it
  table,          \* rows set on this.table
  line,           \* series and label set on this.line
  logVisible,     \* this.log is shown
  errorVisible,   \* this.error is shown
  helpVisible,    \* this.help is shown
  helpBound,      \* the '?' key is bound to the box this.help references
  pendingAcks,    \* callbacks of the registered onceKey(['enter']) handlers
  timers,         \* this.timers: live intervals of each kind
  inflight        \* bag of requests whose promise is pending

vars == <<exitStatus, running, currentMarket, currentPeriod, data, lastUpdate,
          table, line, logVisible, errorVisible, helpVisible, helpBound,
          pendingAcks, timers, inflight>>

alive == exitStatus = "alive"

\* ------------------------------------------------------------------------
\* Bag of pending requests
\* ------------------------------------------------------------------------
RECURSIVE SumOver(_, _)
SumOver(bag, S) ==
  IF S = {} THEN 0
  ELSE LET r == CHOOSE x \in S : TRUE
       IN bag[r] + SumOver(bag, S \ {r})

Total(bag) == SumOver(bag, Requests)

Issue(bag, r) == [bag EXCEPT ![r] = @ + 1]

Settle(bag, r) == [bag EXCEPT ![r] = @ - 1]

EmptyBag == [r \in Requests |-> 0]

\* ------------------------------------------------------------------------
\* Pure helpers of the handlers
\* ------------------------------------------------------------------------
\* constructor: exchange.defaultPeriod || exchange.periods[0]
initialPeriod(d) == IF d = NoDefault THEN Periods[1] ELSE d

\* periodOfKey with the key number used as the 0-based index (periods[ch]):
\* the last key reads past the end of the list
periodOfKey_keyAsIndex(ch) ==
  IF ch + 1 \in DOMAIN Periods THEN Periods[ch + 1] ELSE "undefined"

\* period keys: periods[ch-1] for the key ch = 1..N (sequences here start at 1)
periodOfKey(ch) == Periods[ch]

\* table 'select': this.data.currentPrice[idx].name (idx is the row, from 1)
marketOfRow(d, idx) == d.currentPrice[idx].name

\* contrib.table freshly created by initDashBoard: no rows
EmptyTable == << >>

\* contrib.line freshly created by initDashBoard: label "<market> -- Price
\* Trend -- (No Data)", no series
EmptyLine(m) == [series |-> NoTrend, market |-> m, period |-> "No Data"]

\* updateTable(): nothing unless running; else the rows of data.currentPrice
updateTable(run, d, tbl) ==
  IF ~run THEN tbl
  ELSE [i \in DOMAIN d.currentPrice |-> d.currentPrice[i].name]

\* updateLine(): nothing unless running; else the series of data.priceTrend,
\* labelled with its market and with this.currentPeriod
updateLine(run, d, per, ln) ==
  IF ~run THEN ln
  ELSE [series |-> d.priceTrend,
        market |-> d.priceTrend.currentMarket,
        period |-> per]

\* eventListeners(): one setInterval for updateCurrentPrice and one for
\* updatePriceTrend, kept in this.timers
TimersCreated == [price |-> 1, trend |-> 1]

\* number of handlers in a list of 'enter' handlers that carry init as cb
RECURSIVE retries(_)
retries(acks) ==
  IF acks = << >> THEN 0
  ELSE (IF Head(acks) = "init" THEN 1 ELSE 0) + retries(Tail(acks))

\* ------------------------------------------------------------------------
\* Init: the state the constructor leaves (lines 12-26): fields set,
\* initScreen, initDashBoard, eventListeners, then init() has shown the log
\* and issued the cold-start fetch.
\* ------------------------------------------------------------------------
Init ==
  /\ exitStatus = "alive"
  /\ running = FALSE
  /\ currentMarket = Markets[1]
  /\ \E d \in DefaultPeriods : currentPeriod = initialPeriod(d)
  /\ data = [currentPrice |-> NoPrice, priceTrend |-> NoTrend]
  /\ lastUpdate = "undefined"
  /\ table = EmptyTable
  /\ line = EmptyLine(Markets[1])
  /\ logVisible = TRUE
  /\ errorVisible = FALSE
  /\ helpVisible = FALSE
  /\ helpBound = TRUE
  /\ pendingAcks = << >>
  /\ timers = TimersCreated
  /\ inflight = Issue(EmptyBag, ColdReq(currentMarket, currentPeriod))

\* ------------------------------------------------------------------------
\* Handler bodies shared by several actions
\* ------------------------------------------------------------------------
\* updatePriceTrend that skips the request when a trend request is already
\* pending (coalescing with the periodic tick)
updatePriceTrend_coalesced(m, p) ==
  IF ~running \/ \E r \in TrendRequests : inflight[r] > 0
    THEN UNCHANGED <<logVisible, inflight>>
    ELSE /\ Total(inflight) < MaxInFlight
         /\ logVisible' = TRUE
         /\ inflight' = Issue(inflight, TrendReq(m, p))

\* updatePriceTrend() for the market m and period p that this.currentMarket
\* and this.currentPeriod hold when it runs: returns unless running, else
\* logMsg and the request. Writes logVisible and inflight.
updatePriceTrend(m, p) ==
  IF ~running
    THEN UNCHANGED <<logVisible, inflight>>
    ELSE /\ Total(inflight) < MaxInFlight
         /\ logVisible' = TRUE
         /\ inflight' = Issue(inflight, TrendReq(m, p))

\* errorHandler that also stops the dashboard (this.running = false) when it
\* shows the error box
errorHandler_stopsRunning(kind, cb) ==
  /\ IF kind = "http"
       THEN /\ Len(pendingAcks) < MaxAcks
            /\ errorVisible' = TRUE
            /\ pendingAcks' = Append(pendingAcks, cb)
            /\ UNCHANGED exitStatus
       ELSE /\ exitStatus' = "exit1"
            /\ UNCHANGED <<errorVisible, pendingAcks>>
  /\ running' = (IF kind = "http" THEN FALSE ELSE running)

\* errorHandler(err, cb): an error with a response goes to logError (error
\* box shown, one-shot 'enter' handler registered with cb); anything else is
\* printed as FATAL and exits with code 1. Writes errorVisible, pendingAcks,
\* exitStatus; leaves running alone.
errorHandler(kind, cb) ==
  /\ IF kind = "http"
       THEN /\ Len(pendingAcks) < MaxAcks
            /\ errorVisible' = TRUE
            /\ pendingAcks' = Append(pendingAcks, cb)
            /\ UNCHANGED exitStatus
       ELSE /\ exitStatus' = "exit1"
            /\ UNCHANGED <<errorVisible, pendingAcks>>
  /\ UNCHANGED running

\* initDashBoard that also registers the intervals again (eventListeners
\* run on every rebuild): one more timer of each kind
initDashBoard_newTimers ==
  /\ table' = updateTable(running, data, EmptyTable)
  /\ line' = updateLine(running, data, currentPeriod, EmptyLine(currentMarket))
  /\ logVisible' = FALSE
  /\ errorVisible' = FALSE
  /\ helpVisible' = FALSE
  /\ helpBound' = FALSE
  /\ timers' = [price |-> timers.price + 1, trend |-> timers.trend + 1]
  /\ UNCHANGED <<exitStatus, running, currentMarket, currentPeriod, data,
                 lastUpdate, pendingAcks, inflight>>

\* initDashBoard that ends by calling init(), as the constructor does after
\* it: the rebuild shows the log and issues a cold-start fetch
initDashBoard_reinit ==
  /\ Total(inflight) < MaxInFlight
  /\ table' = updateTable(running, data, EmptyTable)
  /\ line' = updateLine(running, data, currentPeriod, EmptyLine(currentMarket))
  /\ logVisible' = TRUE
  /\ errorVisible' = FALSE
  /\ helpVisible' = FALSE
  /\ helpBound' = FALSE
  /\ inflight' = Issue(inflight, ColdReq(currentMarket, currentPeriod))
  /\ UNCHANGED <<exitStatus, running, currentMarket, currentPeriod, data,
                 lastUpdate, pendingAcks, timers>>

\* initDashBoard(): new table, line, log, error and help widgets replace the
\* ones the object referenced; the three boxes are hidden; updateTable and
\* updateLine fill the new widgets from this.data when running.
initDashBoard ==
  /\ table' = updateTable(running, data, EmptyTable)
  /\ line' = updateLine(running, data, currentPeriod, EmptyLine(currentMarket))
  /\ logVisible' = FALSE
  /\ errorVisible' = FALSE
  /\ helpVisible' = FALSE
  /\ helpBound' = FALSE
  /\ UNCHANGED <<exitStatus, running, currentMarket, currentPeriod, data,
                 lastUpdate, pendingAcks, timers, inflight>>

\* ------------------------------------------------------------------------
\* Timer callbacks
\* ------------------------------------------------------------------------
\* updateCurrentPrice as a timer callback without the running check
PriceTick_unguarded ==
  /\ alive
  /\ timers.price > 0
  /\ Total(inflight) < MaxInFlight
  /\ logVisible' = TRUE
  /\ inflight' = Issue(inflight, PriceReq)
  /\ UNCHANGED <<exitStatus, running, currentMarket, currentPeriod, data,
                 lastUpdate, table, line, errorVisible, helpVisible,
                 helpBound, pendingAcks, timers>>

\* setInterval(updateCurrentPrice): returns unless running
PriceTick ==
  /\ alive
  /\ timers.price > 0
  /\ IF ~running
       THEN UNCHANGED <<logVisible, inflight>>
       ELSE /\ Total(inflight) < MaxInFlight
            /\ logVisible' = TRUE
            /\ inflight' = Issue(inflight, PriceReq)
  /\ UNCHANGED <<exitStatus, running, currentMarket, currentPeriod, data,
                 lastUpdate, table, line, errorVisible, helpVisible,
                 helpBound, pendingAcks, timers>>

\* setInterval(updatePriceTrend)
TrendTick ==
  /\ alive
  /\ timers.trend > 0
  /\ updatePriceTrend(currentMarket, currentPeriod)
  /\ UNCHANGED <<exitStatus, running, currentMarket, currentPeriod, data,
                 lastUpdate, table, line, errorVisible, helpVisible,
                 helpBound, pendingAcks, timers>>

\* ------------------------------------------------------------------------
\* Input handlers
\* ------------------------------------------------------------------------
\* table.rows 'select' (item, idx): returns unless running
TableSelect(idx) ==
  /\ alive
  /\ IF ~running
       THEN UNCHANGED <<currentMarket, logVisible, inflight>>
       ELSE /\ currentMarket' = marketOfRow(data, idx)
            /\ updatePriceTrend(marketOfRow(data, idx), currentPeriod)
  /\ UNCHANGED <<exitStatus, running, currentPeriod, data, lastUpdate, table,
                 line, errorVisible, helpVisible, helpBound, pendingAcks,
                 timers>>

\* screen.key(periodKeys): sets the period, then updatePriceTrend()
PeriodKey(ch) ==
  /\ alive
  /\ currentPeriod' = periodOfKey(ch)
  /\ updatePriceTrend(currentMarket, periodOfKey(ch))
  /\ UNCHANGED <<exitStatus, running, currentMarket, data, lastUpdate, table,
                 line, errorVisible, helpVisible, helpBound, pendingAcks,
                 timers>>

\* screen.key(['?'], this.help.show.bind(this.help)): shows the box that
\* this.help referenced when eventListeners ran
HelpKey ==
  /\ alive
  /\ helpVisible' = IF helpBound THEN TRUE ELSE helpVisible
  /\ UNCHANGED <<exitStatus, running, currentMarket, currentPeriod, data,
                 lastUpdate, table, line, logVisible, errorVisible, helpBound,
                 pendingAcks, timers, inflight>>

\* quit handler without the help check (as in the older variant,
\* src/unnamed/part_000 lines 112-115): always exits
QuitKey_alwaysExits ==
  /\ alive
  /\ exitStatus' = "exit0"
  /\ UNCHANGED <<running, currentMarket, currentPeriod, data, lastUpdate,
                 table, line, logVisible, errorVisible, helpVisible, helpBound,
                 pendingAcks, timers, inflight>>

\* screen.key(['escape', 'q', 'C-c']): closes help when this.help is visible
\* (toggleHelp), else clears this.timer (a field nothing sets) and exits 0
QuitKey ==
  /\ alive
  /\ IF helpVisible
       THEN /\ helpVisible' = FALSE
            /\ UNCHANGED exitStatus
       ELSE /\ exitStatus' = "exit0"
            /\ UNCHANGED helpVisible
  /\ UNCHANGED <<running, currentMarket, currentPeriod, data, lastUpdate,
                 table, line, logVisible, errorVisible, helpBound,
                 pendingAcks, timers, inflight>>

\* 'enter' with handlers registered by logError: every one fires once; each
\* hides this.error and calls its cb; cb = init shows the log and issues the
\* cold-start fetch for the current market and period
EnterKey ==
  /\ alive
  /\ pendingAcks # << >>
  /\ Total(inflight) + retries(pendingAcks) <= MaxInFlight
  /\ errorVisible' = FALSE
  /\ pendingAcks' = << >>
  /\ logVisible' = IF retries(pendingAcks) > 0 THEN TRUE ELSE logVisible
  /\ inflight' = [inflight EXCEPT ![ColdReq(currentMarket, currentPeriod)] =
                    @ + retries(pendingAcks)]
  /\ UNCHANGED <<exitStatus, running, currentMarket, currentPeriod, data,
                 lastUpdate, table, line, helpVisible, helpBound, timers>>

\* screen 'resize': utils.throttle(initDashBoard, 360)() wraps and calls in
\* one go, a fresh wrapper per event
Resize ==
  /\ alive
  /\ initDashBoard

\* ------------------------------------------------------------------------
\* Continuations of the requests
\* ------------------------------------------------------------------------
\* init's then-handler keeping only the prices of the cold-start result
ColdSucceed_priceOnly(r) ==
  /\ alive
  /\ r \in ColdRequests
  /\ inflight[r] > 0
  /\ inflight' = Settle(inflight, r)
  /\ running' = TRUE
  /\ data' = [currentPrice |-> PriceResponse, priceTrend |-> data.priceTrend]
  /\ lastUpdate' = "cold"
  /\ logVisible' = FALSE
  /\ table' = updateTable(TRUE, data', table)
  /\ line' = updateLine(TRUE, data', currentPeriod, line)
  /\ UNCHANGED <<exitStatus, currentMarket, currentPeriod, errorVisible,
                 helpVisible, helpBound, pendingAcks, timers>>

\* init(): fetchAll() resolved
ColdSucceed(r) ==
  /\ alive
  /\ r \in ColdRequests
  /\ inflight[r] > 0
  /\ inflight' = Settle(inflight, r)
  /\ running' = TRUE
  /\ data' = [currentPrice |-> PriceResponse, priceTrend |-> TrendResponse(r)]
  /\ lastUpdate' = "cold"
  /\ logVisible' = FALSE
  /\ table' = updateTable(TRUE, data', table)
  /\ line' = updateLine(TRUE, data', currentPeriod, line)
  /\ UNCHANGED <<exitStatus, currentMarket, currentPeriod, errorVisible,
                 helpVisible, helpBound, pendingAcks, timers>>

\* init(): fetchAll() rejected: hideLog, errorHandler(err, init)
ColdFail(r, kind) ==
  /\ alive
  /\ r \in ColdRequests
  /\ inflight[r] > 0
  /\ inflight' = Settle(inflight, r)
  /\ logVisible' = FALSE
  /\ errorHandler(kind, "init")
  /\ UNCHANGED <<currentMarket, currentPeriod, data, lastUpdate, table, line,
                 helpVisible, helpBound, timers>>

\* updateCurrentPrice(): request resolved
PriceSucceed ==
  /\ alive
  /\ inflight[PriceReq] > 0
  /\ inflight' = Settle(inflight, PriceReq)
  /\ data' = [data EXCEPT !.currentPrice = PriceResponse]
  /\ lastUpdate' = "price"
  /\ table' = updateTable(running, data', table)
  /\ logVisible' = FALSE
  /\ UNCHANGED <<exitStatus, running, currentMarket, currentPeriod, line,
                 errorVisible, helpVisible, helpBound, pendingAcks, timers>>

\* updateCurrentPrice(): request rejected: errorHandler(err)
PriceFail(kind) ==
  /\ alive
  /\ inflight[PriceReq] > 0
  /\ inflight' = Settle(inflight, PriceReq)
  /\ errorHandler(kind, "none")
  /\ UNCHANGED <<currentMarket, currentPeriod, data, lastUpdate, table, line,
                 logVisible, helpVisible, helpBound, timers>>

\* updatePriceTrend(): request resolved: stored and drawn whatever the
\* current market is by now
TrendSucceed(r) ==
  /\ alive
  /\ r \in TrendRequests
  /\ inflight[r] > 0
  /\ inflight' = Settle(inflight, r)
  /\ data' = [data EXCEPT !.priceTrend = TrendResponse(r)]
  /\ line' = updateLine(running, data', currentPeriod, line)
  /\ logVisible' = FALSE
  /\ UNCHANGED <<exitStatus, running, currentMarket, currentPeriod, lastUpdate,
                 table, errorVisible, helpVisible, helpBound, pendingAcks,
                 timers>>

\* updatePriceTrend(): request rejected: errorHandler(err)
TrendFail(r, kind) ==
  /\ alive
  /\ r \in TrendRequests
  /\ inflight[r] > 0
  /\ inflight' = Settle(inflight, r)
  /\ errorHandler(kind, "none")
  /\ UNCHANGED <<currentMarket, currentPeriod, data, lastUpdate, table, line,
                 logVisible, helpVisible, helpBound, timers>>

Next ==
  \/ PriceTick
  \/ TrendTick
  \/ \E idx \in DOMAIN Markets : TableSelect(idx)
  \/ \E ch \in DOMAIN Periods : PeriodKey(ch)
  \/ HelpKey
  \/ QuitKey
  \/ EnterKey
  \/ Resize
  \/ \E r \in ColdRequests : ColdSucceed(r)
  \/ \E r \in ColdRequests, kind \in ErrKinds : ColdFail(r, kind)
  \/ PriceSucceed
  \/ \E kind \in ErrKinds : PriceFail(kind)
  \/ \E r \in TrendRequests : TrendSucceed(r)
  \/ \E r \in TrendRequests, kind \in ErrKinds : TrendFail(r, kind)

Spec == Init /\ [][Next]_vars

\* ========================================================================
\* Claims
\* ========================================================================
\* Steps used to name the operation a claim is about
TickFailed ==
  \/ \E kind \in ErrKinds : PriceFail(kind)
  \/ \E r \in TrendRequests, kind \in ErrKinds : TrendFail(r, kind)

FetchFailed ==
  \/ TickFailed
  \/ \E r \in ColdRequests, kind \in ErrKinds : ColdFail(r, kind)

SelectionEvent ==
  \/ \E idx \in DOMAIN Markets : TableSelect(idx)
  \/ \E ch \in DOMAIN Periods : PeriodKey(ch)

\* C1: when the result of a trend fetch issued for market A arrives while
\* currentMarket is another market B, the stored trend series is not
\* overwritten and the chart is not redrawn from it.
C1_StaleTrendDiscarded ==
  [][\A r \in TrendRequests :
       (TrendSucceed(r) /\ r.market # currentMarket)
         => (data'.priceTrend = data.priceTrend /\ line' = line)]_vars

\* C2: running is false after construction, becomes true only in the step
\* in which a cold-start fetch (prices and trend) succeeds, and once true is
\* never false again, whatever failures, retries and ticks are interleaved.
C2_RunningOneWay ==
  /\ running = FALSE
  /\ [][/\ running => running'
        /\ (~running /\ running') => \E r \in ColdRequests : ColdSucceed(r)
        /\ (~running /\ running') =>
             (data'.currentPrice # NoPrice /\ data'.priceTrend # NoTrend)]_vars

\* C2 witness: a fetch failed after the cold start succeeded; its error box
\* is up, its acknowledgement pending, and running is still true.
C2_Witness ==
  running /\ errorVisible /\ pendingAcks # << >> /\ lastUpdate = "price"

\* C3: in every state, hence after every period key and every table row
\* selection, currentPeriod is one of exchange.periods and currentMarket is
\* one of the configured markets.
C3_SelectionInRange ==
  /\ currentPeriod \in Range(Periods)
  /\ currentMarket \in Range(Markets)

\* C3 witness: both events have acted. The stored trend was fetched for the
\* first market and first period, so that pair was current after the cold
\* start; since then a row selection changed the market and a period key
\* the period.
C3_Witness ==
  /\ running
  /\ currentMarket = Markets[2]
  /\ currentPeriod = Periods[2]
  /\ data.priceTrend = TrendResponse(TrendReq(Markets[1], Periods[1]))

\* C4: once the error overlay is visible, only an acknowledge (enter) step
\* hides it: no tick, log message, completion, selection, help key or resize
\* rebuild does.
C4_ErrorStaysUntilAck ==
  [][(errorVisible /\ ~errorVisible') => EnterKey]_vars

\* C5: in every reachable state at most one of the log, error and help
\* overlays is visible.
C5_OneOverlay ==
  /\ ~(logVisible /\ errorVisible)
  /\ ~(logVisible /\ helpVisible)
  /\ ~(errorVisible /\ helpVisible)

\* C6: while the error overlay is visible, a table row selection or a period
\* key changes neither currentMarket nor currentPeriod and issues no fetch.
C6_InputInertUnderError ==
  [][(errorVisible /\ SelectionEvent)
       => UNCHANGED <<currentMarket, currentPeriod, inflight>>]_vars

\* C7: a resize rebuild leaves currentMarket, currentPeriod, running, the
\* stored price and trend snapshots and their timestamp unchanged and issues
\* no fetch.
C7_RebuildPreserves ==
  [][Resize => UNCHANGED <<currentMarket, currentPeriod, running, data,
                           lastUpdate, inflight>>]_vars

\* C7 witness: a rebuild has run in a running dashboard: the error box of a
\* failed tick is hidden although its acknowledgement is still pending
\* (only the rebuild does that), the '?' binding no longer targets
\* this.help, and the selected market, the stored snapshots and a fetch in
\* flight are all there.
C7_Witness ==
  /\ running
  /\ ~helpBound
  /\ ~errorVisible
  /\ pendingAcks = <<"none">>
  /\ currentMarket = Markets[2]
  /\ data.priceTrend = TrendResponse(TrendReq(Markets[2], Periods[2]))
  /\ line.series = data.priceTrend
  /\ Total(inflight) > 0

\* C8: after a periodic price or trend fetch fails, the error overlay is
\* shown with an acknowledgement pending, both timers still exist and the
\* process is alive and running, so the next tick issues a fetch again.
C8_TickFailureKeepsTimers ==
  [][TickFailed =>
       /\ errorVisible'
       /\ pendingAcks' # << >>
       /\ timers' = TimersCreated
       /\ exitStatus' = "alive"
       /\ running']_vars

\* C9: a cold-start failure shows the error overlay with init bound as the
\* callback, and acknowledging it issues the cold-start fetch again; a
\* failed tick or selection fetch registers a handler without callback, so
\* acknowledging with no init callback pending issues no fetch.
C9_OnlyColdStartRetries ==
  [][/\ (\E r \in ColdRequests, kind \in ErrKinds : ColdFail(r, kind))
          => (errorVisible' /\ pendingAcks' = Append(pendingAcks, "init"))
     /\ TickFailed
          => (exitStatus' = "alive" => pendingAcks' = Append(pendingAcks, "none"))
     /\ (EnterKey /\ retries(pendingAcks) > 0)
          => inflight' = Issue(inflight, ColdReq(currentMarket, currentPeriod))
     /\ (EnterKey /\ retries(pendingAcks) = 0)
          => inflight' = inflight]_vars

\* C10: every failed fetch (cold start, price tick, trend tick, selection
\* trend fetch) ends with the error overlay shown and the process alive.
C10_FailuresBecomeOverlay ==
  [][FetchFailed => (errorVisible' /\ exitStatus' = "alive")]_vars


\* C11: when running, the key of period P sets currentPeriod to P and the
\* selection of the row of market M sets currentMarket to M, and the same
\* handler issues one trend fetch for the new (market, period) pair, adding
\* it to the fetches already in flight and leaving both timers as they are.
C11_SelectionFetchesAtOnce ==
  [][/\ \A ch \in DOMAIN Periods :
          (running /\ PeriodKey(ch)) =>
            /\ currentPeriod' = Periods[ch]
            /\ inflight' = Issue(inflight, TrendReq(currentMarket, Periods[ch]))
            /\ timers' = timers
     /\ \A idx \in DOMAIN Markets :
          (running /\ TableSelect(idx)) =>
            /\ currentMarket' = Markets[idx]
            /\ inflight' = Issue(inflight, TrendReq(Markets[idx], currentPeriod))
            /\ timers' = timers]_vars

\* C11 witness: the second market and second period are selected and two
\* trend fetches are in flight side by side, one for the pair before the
\* period key and one for the pair after it.
C11_Witness ==
  /\ running
  /\ currentMarket = Markets[2]
  /\ currentPeriod = Periods[2]
  /\ inflight[TrendReq(Markets[2], Periods[1])] = 1
  /\ inflight[TrendReq(Markets[2], Periods[2])] = 1


\* C12: a period key pressed while running is false changes nothing: not
\* currentPeriod, no other part of the state, and no fetch is issued.
C12_PeriodKeyInertBeforeRunning ==
  [][(~running /\ \E ch \in DOMAIN Periods : PeriodKey(ch))
       => UNCHANGED vars]_vars

\* C13: while running is false a price tick or a trend tick changes nothing
\* (no fetch, no log message, no view state), and so every fetch in flight
\* before running becomes true is a cold-start fetch.
C13_TicksInertBeforeRunning ==
  /\ [](~running => \A r \in Requests \ ColdRequests : inflight[r] = 0)
  /\ [][(~running /\ (PriceTick \/ TrendTick)) => UNCHANGED vars]_vars

\* C13 witness: the dashboard is not running, both timers are live, a
\* rebuild has hidden the log box and it is still hidden (no tick has shown
\* it again), and the one fetch in flight is the cold-start fetch.
C13_Witness ==
  /\ alive
  /\ ~running
  /\ timers = TimersCreated
  /\ ~helpBound
  /\ ~logVisible
  /\ Total(inflight) = 1
  /\ \E r \in ColdRequests : inflight[r] = 1


\* Steps in which the promise of a request settles
FetchSucceeded ==
  \/ \E r \in ColdRequests : ColdSucceed(r)
  \/ PriceSucceed
  \/ \E r \in TrendRequests : TrendSucceed(r)

\* C14: a quit key pressed while the help overlay is hidden, in any state,
\* cancels both timers and ends the process with exit code 0.
C14_QuitCancelsTimersAndExits ==
  [][(QuitKey /\ ~helpVisible) =>
       /\ exitStatus' = "exit0"
       /\ timers' = [price |-> 0, trend |-> 0]]_vars

\* C15: the help key pressed while the error overlay is visible does not
\* make the help overlay visible.
C15_HelpKeyDeadUnderError ==
  [][(errorVisible /\ ~helpVisible /\ HelpKey) => ~helpVisible']_vars

\* C16: the log overlay is hidden when a fetch completes, by success or by
\* failure, and it is never visible while no fetch is in flight.
C16_LogFollowsFetches ==
  /\ []((alive /\ Total(inflight) = 0) => ~logVisible)
  /\ [][((FetchSucceeded \/ FetchFailed) /\ exitStatus' = "alive")
          => ~logVisible']_vars

\* C17: a quit key pressed while the help overlay is visible hides it and
\* neither ends the process nor touches a timer; the process exits with
\* code 0 only by a quit key pressed with help hidden.
C17_QuitClosesHelpFirst ==
  [][/\ (QuitKey /\ helpVisible) =>
          (~helpVisible' /\ exitStatus' = "alive" /\ timers' = timers)
     /\ (exitStatus = "alive" /\ exitStatus' = "exit0") =>
          (QuitKey /\ ~helpVisible)]_vars

\* C17 witness: the process ended with code 0 out of a running dashboard
\* whose '?' binding still targeted this.help, help hidden at the end.
C17_Witness ==
  /\ exitStatus = "exit0"
  /\ running
  /\ helpBound
  /\ ~helpVisible
  /\ errorVisible


\* C18: in every state where running is true the view state holds a price
\* snapshot (one entry per market) and a trend snapshot, and the table and
\* chart on screen were filled from present data.
C18_RunningHasData ==
  running =>
    /\ data.currentPrice # NoPrice
    /\ Len(data.currentPrice) = Len(Markets)
    /\ data.priceTrend # NoTrend
    /\ line.series # NoTrend

\* C18 witness: running, after a tick failed and a rebuild ran on top of it
\* (error box hidden with its acknowledgement still pending), a later price
\* tick and a later selection having replaced both snapshots.
C18_Witness ==
  /\ running
  /\ ~helpBound
  /\ ~errorVisible
  /\ pendingAcks = <<"none">>
  /\ lastUpdate = "price"
  /\ data.priceTrend = TrendResponse(TrendReq(Markets[2], Periods[2]))

\* C19: whenever the chart shows a series, the period in its label is the
\* period that series was fetched with.
C19_LabelMatchesSeries ==
  line.series # NoTrend => line.period = line.series.period

\* C20: while the process is alive there is exactly one price timer and
\* exactly one trend timer, whatever rebuilds, retries, selections and
\* completions have happened.
C20_OneTimerEach ==
  alive => (timers.price = 1 /\ timers.trend = 1)

\* C20 witness: a rebuild and a cold-start retry have both happened: the
\* rebuild hid the log box and rebound nothing, and the retry (init called
\* again on acknowledge) has shown the log and has its fetch in flight.
C20_Witness ==
  /\ alive
  /\ ~running
  /\ ~helpBound
  /\ logVisible
  /\ pendingAcks = << >>
  /\ Total(inflight) = 1

====
